---- MODULE Spec2Model ----
(***************************************************************************)
(* London Open Imbalance back-test: signal detection                       *)
(* (LondonImbalanceStrategy), trade simulation and metrics                 *)
(* (BacktestEngine).                                                       *)
(*                                                                         *)
(* Prices are integers in tenths of a pip (1.04998 is 104998), so that     *)
(* five-decimal quotes are exact.  Quantities the code obtains by a        *)
(* division (pips, averages, ratios) are exact rationals [n, d] with       *)
(* d > 0; binary floating-point rounding error is not modelled.            *)
(* Sequences are 1-based: row i of the data frame (df.iloc[i]) is df[i+1]. *)
(***************************************************************************)
EXTENDS Integers, Sequences, FiniteSets, TLC

VARIABLES cfg, df, signals, trades, metrics, pc, price, near

vars == <<cfg, df, signals, trades, metrics, pc, price, near>>

----------------------------------------------------------------------------
(* Arithmetic helpers *)

Abs(x) == IF x < 0 THEN -x ELSE x

Min2(a, b) == IF a <= b THEN a ELSE b

Max2(a, b) == IF a >= b THEN a ELSE b

RECURSIVE Gcd(_, _)
Gcd(a, b) == IF b = 0 THEN a ELSE Gcd(b, a % b)

\* The rational n/d in lowest terms (d > 0).
Rat(n, d) ==
    LET g == Gcd(Abs(n), d)
    IN  [n |-> n \div g, d |-> d \div g]

\* Python's int(): truncation toward zero of the quotient a/b (b > 0).
IntTrunc(a, b) == IF a >= 0 THEN a \div b ELSE -((-a) \div b)

----------------------------------------------------------------------------
(* LondonImbalanceStrategy *)

\* self.pip_value = 0.0001, in tenths of a pip.
pip_value == 10

\* Warm-up: detect_signals starts its scan at row 100.
Warmup == 100

\* rolling(window=20) of the volume baseline.
VolumeWindow == 20

\* rolling(window=288) of the previous-day extremes.
DayWindow == 288

\* The location tolerance: is_near_round_number's default tolerance_pips and
\* the literal 5 of pips_to_price(5).
TolerancePips == 5

\* pips * self.pip_value
pips_to_price(pips) == pips * pip_value

\* price / self.pip_value, as an exact rational.
price_to_pips(p) == [n |-> p, d |-> pip_value]

\* r >= k for a rational r and an integer k.
RatGeq(r, k) == r.n >= k * r.d

\* timestamp.hour of a bar whose timestamp is the ts-th five-minute slot
\* (twelve to the hour) counted from a midnight.
Hour(ts) == (ts \div 12) % 24

\* A session check that lets the 11 o'clock hour in.
is_london_session_inclusive(ts) == 8 <= Hour(ts) /\ Hour(ts) <= 11

is_london_session(ts) == 8 <= Hour(ts) /\ Hour(ts) < 11

is_near_round_number(p, tolerance_pips) ==
    LET price_in_pips   == IntTrunc(p, pip_value)
        last_two_digits == price_in_pips % 100
    IN  \/ Abs(last_two_digits) <= tolerance_pips
        \/ Abs(last_two_digits - 100) <= tolerance_pips
        \/ Abs(last_two_digits - 50) <= tolerance_pips

\* df.iloc[i]
Row(d, i) == d[i + 1]

\* One step of ewm(span=ema_length, adjust=False).mean():
\* avg + alpha*(close - avg) with alpha = 2/(span+1).
EmaStep(c, prev, close) ==
    Rat((c.ema_length - 1) * prev.n + 2 * close * prev.d,
        (c.ema_length + 1) * prev.d)

\* The recurrence applied to avg over rows lo..hi in order (the range is
\* halved and avg is evaluated on entry to keep the evaluation shallow; the
\* steps are taken left to right).
RECURSIVE EmaFold(_, _, _, _, _)
EmaFold(c, d, avg, lo, hi) ==
    IF avg.d = 0 \/ lo > hi THEN avg
    ELSE IF lo = hi THEN EmaStep(c, avg, Row(d, lo).close)
    ELSE LET mid == (lo + hi) \div 2
         IN  EmaFold(c, d, EmaFold(c, d, avg, lo, mid), mid + 1, hi)

\* df['ema_20'] at row i: seeded with the first close.
ema_20(c, d, i) == EmaFold(c, d, Rat(Row(d, 0).close, 1), 1, i)

\* df['ema_20'].diff() at row i >= 1, over the denominator of the recurrence.
ema_slope(c, d, i) ==
    LET prev == ema_20(c, d, i - 1)
    IN  [n |-> ((c.ema_length - 1) * prev.n + 2 * Row(d, i).close * prev.d)
                 - (c.ema_length + 1) * prev.n,
         d |-> (c.ema_length + 1) * prev.d]

\* Sum of the volumes of rows lo..hi.
RECURSIVE VolumeSum(_, _, _)
VolumeSum(d, lo, hi) ==
    IF lo > hi THEN 0 ELSE Row(d, hi).volume + VolumeSum(d, lo, hi - 1)

\* df['volume'] > df['volume_ma'] * volume_multiplier; the rolling mean is NaN
\* (and the comparison False) until 20 rows are available.  The multiplier is
\* held in tenths (15 is 1.5).
volume_spike(c, d, i) ==
    /\ i >= VolumeWindow - 1
    /\ Row(d, i).volume * VolumeWindow * 10
         > VolumeSum(d, i - (VolumeWindow - 1), i) * c.volume_multiplier

body(d, i) == Abs(Row(d, i).close - Row(d, i).open)

upper_wick(d, i) == Row(d, i).high - Max2(Row(d, i).open, Row(d, i).close)

lower_wick(d, i) == Min2(Row(d, i).open, Row(d, i).close) - Row(d, i).low

body_pips(d, i) == price_to_pips(body(d, i))

upper_wick_pips(d, i) == price_to_pips(upper_wick(d, i))

lower_wick_pips(d, i) == price_to_pips(lower_wick(d, i))

\* The highest high of rows lo..hi (lo <= hi).
RECURSIVE HighMax(_, _, _)
HighMax(d, lo, hi) ==
    IF lo = hi THEN Row(d, lo).high
    ELSE LET mid == (lo + hi) \div 2
         IN  Max2(HighMax(d, lo, mid), HighMax(d, mid + 1, hi))

\* The lowest low of rows lo..hi (lo <= hi).
RECURSIVE LowMin(_, _, _)
LowMin(d, lo, hi) ==
    IF lo = hi THEN Row(d, lo).low
    ELSE LET mid == (lo + hi) \div 2
         IN  Min2(LowMin(d, lo, mid), LowMin(d, mid + 1, hi))

\* high.shift(1).rolling(window=288, min_periods=1).max() at row i >= 1: the
\* highest high of the (up to) 288 rows before row i.
prev_day_high(d, i) == HighMax(d, Max2(0, i - DayWindow), i - 1)

prev_day_low(d, i) == LowMin(d, Max2(0, i - DayWindow), i - 1)

\* CONDITION 1, lines 129-133.
at_round_number(d, i) == is_near_round_number(Row(d, i).close, TolerancePips)

at_prev_day_high(d, i) ==
    Abs(Row(d, i).close - prev_day_high(d, i)) < pips_to_price(TolerancePips)

at_prev_day_low(d, i) ==
    Abs(Row(d, i).close - prev_day_low(d, i)) < pips_to_price(TolerancePips)

at_key_level(d, i) ==
    at_round_number(d, i) \/ at_prev_day_high(d, i) \/ at_prev_day_low(d, i)

\* CONDITION 3
bullish_rejection(c, d, i) == RatGeq(lower_wick_pips(d, i - 1), c.min_wick_pips)

bearish_rejection(c, d, i) == RatGeq(upper_wick_pips(d, i - 1), c.min_wick_pips)

\* CONDITION 4
strong_body(c, d, i) == RatGeq(body_pips(d, i), c.min_body_pips)

bullish_confirm(d, i) ==
    /\ Row(d, i).close > Row(d, i).open
    /\ Row(d, i).close > Row(d, i - 1).high

bearish_confirm(d, i) ==
    /\ Row(d, i).close < Row(d, i).open
    /\ Row(d, i).close < Row(d, i - 1).low

\* CONDITION 5
ema_bullish(c, d, i) ==
    LET avg == ema_20(c, d, i)
    IN  /\ ema_slope(c, d, i).n > 0
        /\ Row(d, i).close * avg.d > avg.n

ema_bearish(c, d, i) ==
    LET avg == ema_20(c, d, i)
    IN  /\ ema_slope(c, d, i).n < 0
        /\ Row(d, i).close * avg.d < avg.n

LongSignal(c, d, i) ==
    /\ bullish_rejection(c, d, i)
    /\ bullish_confirm(d, i)
    /\ strong_body(c, d, i)
    /\ ema_bullish(c, d, i)

ShortSignal(c, d, i) ==
    /\ bearish_rejection(c, d, i)
    /\ bearish_confirm(d, i)
    /\ strong_body(c, d, i)
    /\ ema_bearish(c, d, i)

\* The dictionary appended for a LONG signal at row i.
LongEntry(c, d, i) ==
    [timestamp   |-> Row(d, i).ts,
     direction   |-> "LONG",
     entry_price |-> Row(d, i).close,
     stop_loss   |-> Row(d, i).close - pips_to_price(c.stop_loss_pips),
     tp1         |-> Row(d, i).close + pips_to_price(c.tp1_pips),
     tp2         |-> Row(d, i).close + pips_to_price(c.tp2_pips),
     level_type  |-> IF at_round_number(d, i) THEN "Round" ELSE "Prev Day",
     entry_index |-> i]

\* A SHORT entry whose levels are placed as for LONG.
ShortEntryAsLong(c, d, i) ==
    [LongEntry(c, d, i) EXCEPT !.direction = "SHORT"]

\* The dictionary appended for a SHORT signal at row i.
ShortEntry(c, d, i) ==
    [timestamp   |-> Row(d, i).ts,
     direction   |-> "SHORT",
     entry_price |-> Row(d, i).close,
     stop_loss   |-> Row(d, i).close + pips_to_price(c.stop_loss_pips),
     tp1         |-> Row(d, i).close - pips_to_price(c.tp1_pips),
     tp2         |-> Row(d, i).close - pips_to_price(c.tp2_pips),
     level_type  |-> IF at_round_number(d, i) THEN "Round" ELSE "Prev Day",
     entry_index |-> i]

\* A loop body whose SHORT branch is an `if` of its own, on the rejection and
\* the body alone: a bar may append a signal in each direction.
SignalsAtBothDirections(c, d, i) ==
    IF ~is_london_session(Row(d, i).ts) THEN <<>>
    ELSE IF ~at_key_level(d, i) THEN <<>>
    ELSE IF ~volume_spike(c, d, i - 1) THEN <<>>
    ELSE (IF LongSignal(c, d, i) THEN <<LongEntry(c, d, i)>> ELSE <<>>)
           \o (IF bearish_rejection(c, d, i) /\ strong_body(c, d, i)
               THEN <<ShortEntry(c, d, i)>> ELSE <<>>)

\* One pass of the loop body for row i: the signals it appends (none or one).
SignalsAt(c, d, i) ==
    IF ~is_london_session(Row(d, i).ts) THEN <<>>
    ELSE IF ~at_key_level(d, i) THEN <<>>
    ELSE IF ~volume_spike(c, d, i - 1) THEN <<>>
    ELSE IF LongSignal(c, d, i) THEN <<LongEntry(c, d, i)>>
    ELSE IF ShortSignal(c, d, i) THEN <<ShortEntry(c, d, i)>>
    ELSE <<>>

\* The signals appended for rows lo..hi-1, in row order.
RECURSIVE ScanRows(_, _, _, _)
ScanRows(c, d, lo, hi) ==
    IF lo >= hi THEN <<>>
    ELSE IF hi = lo + 1 THEN SignalsAt(c, d, lo)
    ELSE LET mid == (lo + hi) \div 2
         IN  ScanRows(c, d, lo, mid) \o ScanRows(c, d, mid, hi)

\* pandas rejects ewm(span=...) with span < 1 (ValueError) when
\* calculate_indicators runs; nothing else in the configuration is checked.
IndicatorsRaise(c) == c.ema_length < 1

\* for i in range(100, len(df))
detect_signals(c, d) == ScanRows(c, d, Warmup, Len(d))

----------------------------------------------------------------------------
(* BacktestEngine *)

\* max_bars = 60  # Max 5 hours (60 * 5min bars)
max_bars == 60

\* The chain with the targets tested before the stop.
BarExitTargetsFirst(bar, sig) ==
    IF sig.direction = "LONG"
    THEN IF bar.high >= sig.tp2 THEN "TP2"
         ELSE IF bar.high >= sig.tp1 THEN "TP1"
         ELSE IF bar.low <= sig.stop_loss THEN "STOP_LOSS"
         ELSE "NONE"
    ELSE IF sig.direction = "SHORT"
    THEN IF bar.low <= sig.tp2 THEN "TP2"
         ELSE IF bar.low <= sig.tp1 THEN "TP1"
         ELSE IF bar.high >= sig.stop_loss THEN "STOP_LOSS"
         ELSE "NONE"
    ELSE "NONE"

\* The if/elif chain of one forward bar: the exit it triggers, or "NONE".
BarExit(bar, sig) ==
    IF sig.direction = "LONG"
    THEN IF bar.low <= sig.stop_loss THEN "STOP_LOSS"
         ELSE IF bar.high >= sig.tp2 THEN "TP2"
         ELSE IF bar.high >= sig.tp1 THEN "TP1"
         ELSE "NONE"
    ELSE IF sig.direction = "SHORT"
    THEN IF bar.high >= sig.stop_loss THEN "STOP_LOSS"
         ELSE IF bar.low <= sig.tp2 THEN "TP2"
         ELSE IF bar.low <= sig.tp1 THEN "TP1"
         ELSE "NONE"
    ELSE "NONE"

\* The price a triggered exit is filled at.
ExitLevel(sig, reason) ==
    CASE reason = "STOP_LOSS" -> sig.stop_loss
      [] reason = "TP2"       -> sig.tp2
      [] reason = "TP1"       -> sig.tp1

\* The end (exclusive) of the forward scan.
ScanEnd(d, sig) == Min2(sig.entry_index + max_bars, Len(d))

\* The forward loop from row i, with `bars` rows already counted.
RECURSIVE ForwardScan(_, _, _, _)
ForwardScan(d, sig, i, bars) ==
    IF i >= ScanEnd(d, sig)
    THEN [exit_price |-> "None", exit_reason |-> "None", bars_in_trade |-> bars]
    ELSE LET reason == BarExit(Row(d, i), sig)
         IN  IF reason # "NONE"
             THEN [exit_price    |-> ExitLevel(sig, reason),
                   exit_reason   |-> reason,
                   bars_in_trade |-> bars + 1]
             ELSE ForwardScan(d, sig, i + 1, bars + 1)

\* if exit_price is None: close at the time stop.
TimeStopRow(d, sig) == Min2(sig.entry_index + max_bars - 1, Len(d) - 1)

\* A trade that counts a result of exactly 0 pips as a win.
TradeWinAtZero(d, sig) ==
    LET found == ForwardScan(d, sig, sig.entry_index + 1, 0)
        exit_price  == IF found.exit_reason = "None"
                       THEN Row(d, TimeStopRow(d, sig)).close
                       ELSE found.exit_price
        exit_reason == IF found.exit_reason = "None"
                       THEN "TIME_STOP" ELSE found.exit_reason
        pips == IF sig.direction = "LONG"
                THEN price_to_pips(exit_price - sig.entry_price)
                ELSE price_to_pips(sig.entry_price - exit_price)
    IN  [entry_time    |-> sig.timestamp,
         direction     |-> sig.direction,
         entry_price   |-> sig.entry_price,
         exit_price    |-> exit_price,
         exit_reason   |-> exit_reason,
         pips          |-> pips,
         win           |-> pips.n >= 0,
         bars_in_trade |-> found.bars_in_trade,
         level_type    |-> sig.level_type]

\* The dictionary appended to trades for one signal.
Trade(d, sig) ==
    LET found == ForwardScan(d, sig, sig.entry_index + 1, 0)
        exit_price  == IF found.exit_reason = "None"
                       THEN Row(d, TimeStopRow(d, sig)).close
                       ELSE found.exit_price
        exit_reason == IF found.exit_reason = "None"
                       THEN "TIME_STOP" ELSE found.exit_reason
        pips == IF sig.direction = "LONG"
                THEN price_to_pips(exit_price - sig.entry_price)
                ELSE price_to_pips(sig.entry_price - exit_price)
    IN  [entry_time    |-> sig.timestamp,
         direction     |-> sig.direction,
         entry_price   |-> sig.entry_price,
         exit_price    |-> exit_price,
         exit_reason   |-> exit_reason,
         pips          |-> pips,
         win           |-> pips.n > 0,
         bars_in_trade |-> found.bars_in_trade,
         level_type    |-> sig.level_type]

\* The bars counted by the trades of the first k signals together.
RECURSIVE BarsBefore(_, _, _)
BarsBefore(d, sigs, k) ==
    IF k = 0 THEN 0
    ELSE Trade(d, sigs[k]).bars_in_trade + BarsBefore(d, sigs, k - 1)

\* bars_in_trade set to 0 once, before the loop over the signals.
execute_trades_one_counter(d, sigs) ==
    [k \in 1..Len(sigs) |->
       [Trade(d, sigs[k]) EXCEPT !.bars_in_trade = BarsBefore(d, sigs, k)]]

\* One position at a time: a signal whose bar comes while the trade of the
\* signal before it is still open is passed over.
execute_trades_one_position(d, sigs) ==
    LET free(k) == \/ k = 1
                   \/ sigs[k].entry_index >=
                        sigs[k - 1].entry_index + Trade(d, sigs[k - 1]).bars_in_trade
        kept == SelectSeq([k \in 1..Len(sigs) |-> k], free)
    IN  [j \in 1..Len(kept) |-> Trade(d, sigs[kept[j]])]

\* for signal in signals: ... trades.append({...})
execute_trades(d, sigs) == [k \in 1..Len(sigs) |-> Trade(d, sigs[k])]

\* round(n/d, digits), to the nearest 10^-digits, ties to even; scale is
\* 10^digits.
Round(n, d, scale) ==
    LET q == (n * scale) \div d
        r == (n * scale) % d
        m == IF 2 * r < d THEN q
             ELSE IF 2 * r > d THEN q + 1
             ELSE IF q % 2 = 0 THEN q ELSE q + 1
    IN  [n |-> m, d |-> scale]

\* The literal 0 of a neutral default.
Zero == [n |-> 0, d |-> 1]

\* trades_df[trades_df['win'] == flag]
Select(ts, flag) == SelectSeq(ts, LAMBDA t: t.win = flag)

\* Sum of the pips numerators (all pips share the denominator pip_value).
RECURSIVE PipsSum(_)
PipsSum(ts) == IF ts = <<>> THEN 0 ELSE Head(ts).pips.n + PipsSum(Tail(ts))

RECURSIVE BarsSum(_)
BarsSum(ts) == IF ts = <<>> THEN 0 ELSE Head(ts).bars_in_trade + BarsSum(Tail(ts))

gross_profit(ts) == IF Len(Select(ts, TRUE)) > 0 THEN PipsSum(Select(ts, TRUE)) ELSE 0

gross_loss(ts) == IF Len(Select(ts, FALSE)) > 0 THEN Abs(PipsSum(Select(ts, FALSE))) ELSE 0

\* The ratio left unbounded when nothing was lost.
profit_factor_unbounded(ts) ==
    IF gross_loss(ts) > 0 THEN Round(gross_profit(ts), gross_loss(ts), 100)
    ELSE [n |-> 1, d |-> 0]

\* round(gross_profit / gross_loss if gross_loss > 0 else 0, 2)
profit_factor(ts) ==
    IF gross_loss(ts) > 0 THEN Round(gross_profit(ts), gross_loss(ts), 100) ELSE Zero

\* The mean of the winners taken without looking whether there are any.
avg_win_pips_unguarded(ts) ==
    IF Len(Select(ts, TRUE)) > 0
    THEN Round(PipsSum(Select(ts, TRUE)), pip_value * Len(Select(ts, TRUE)), 100)
    ELSE [n |-> 0, d |-> 0]

\* round(winners['pips'].mean(), 2) if len(winners) > 0 else 0
avg_win_pips(ts) ==
    IF Len(Select(ts, TRUE)) > 0
    THEN Round(PipsSum(Select(ts, TRUE)), pip_value * Len(Select(ts, TRUE)), 100)
    ELSE Zero

\* round(losers['pips'].mean(), 2) if len(losers) > 0 else 0
avg_loss_pips(ts) ==
    IF Len(Select(ts, FALSE)) > 0
    THEN Round(PipsSum(Select(ts, FALSE)), pip_value * Len(Select(ts, FALSE)), 100)
    ELSE Zero

calculate_metrics(ts) ==
    IF Len(ts) = 0
    THEN [total_trades |-> 0, winners |-> 0, losers |-> 0, win_rate |-> Zero,
          total_pips |-> Zero, avg_pips |-> Zero, avg_win_pips |-> Zero,
          avg_loss_pips |-> Zero, profit_factor |-> Zero,
          avg_bars_in_trade |-> Zero]
    ELSE LET total_trades == Len(ts)
             winners == Select(ts, TRUE)
             losers  == Select(ts, FALSE)
         IN  [total_trades  |-> total_trades,
              winners       |-> Len(winners),
              losers        |-> Len(losers),
              win_rate      |-> IF total_trades > 0
                                THEN Round(Len(winners) * 100, total_trades, 100)
                                ELSE Zero,
              total_pips    |-> Round(PipsSum(ts), pip_value, 100),
              avg_pips      |-> Round(PipsSum(ts), pip_value * total_trades, 100),
              avg_win_pips  |-> avg_win_pips(ts),
              avg_loss_pips |-> avg_loss_pips(ts),
              profit_factor |-> profit_factor(ts),
              avg_bars_in_trade |-> IF Len(ts) > 0
                                    THEN Round(BarsSum(ts), Len(ts), 10)
                                    ELSE Zero]

----------------------------------------------------------------------------
(* Inputs: configurations, price sequences, hand-made signal lists *)

\* Forward bars supplied beyond the 60-bar horizon.
MaxExtra == 1

\* Longest hand-made signal list passed to execute_trades.
MaxSignals == 2

\* LondonImbalanceStrategy() with its default arguments.
DefaultConfig ==
    [volume_multiplier |-> 15, min_wick_pips |-> 8, min_body_pips |-> 5,
     ema_length |-> 20, stop_loss_pips |-> 15, tp1_pips |-> 20, tp2_pips |-> 30]

\* What __init__ accepts: any arguments at all.  The last five break the
\* documented validation rules.
Configs ==
    { DefaultConfig,
      [DefaultConfig EXCEPT !.ema_length = 3, !.stop_loss_pips = 10,
                            !.tp1_pips = 10, !.tp2_pips = 20],
      [DefaultConfig EXCEPT !.stop_loss_pips = 0],
      [DefaultConfig EXCEPT !.tp1_pips = -20],
      [DefaultConfig EXCEPT !.volume_multiplier = 0],
      [DefaultConfig EXCEPT !.min_wick_pips = 0, !.min_body_pips = -5],
      [DefaultConfig EXCEPT !.ema_length = 0] }

\* A bar's shape: offsets from a base price, and a volume.
Sh(o, h, l, c, v) == [o |-> o, h |-> h, l |-> l, c |-> c, v |-> v]

Quiet == Sh(0, 0, 0, 0, 100)

\* Rejection bars (the bar before the confirmation bar).
RejL     == Sh(0, 10, -90, 0, 300)          \* 9-pip lower wick, volume spike
RejLedge == Sh(0, 10, -80, 0, 300)          \* 8-pip lower wick: just enough
RejLweak == Sh(0, 10, -79, 0, 300)          \* 7.9-pip lower wick
RejLcalm == Sh(0, 10, -90, 0, 100)          \* no volume spike
RejS     == Sh(0, 90, -10, 0, 300)          \* 9-pip upper wick, volume spike
RejDown  == Sh(-480, -470, -570, -480, 300) \* lower wick, far below the average
RejBoth  == Sh(0, 90, -90, 0, 300)          \* 9-pip wicks on both sides

RejShapes == {Quiet, RejL, RejLedge, RejLweak, RejLcalm, RejS, RejDown, RejBoth}

\* Confirmation bars.
ConfL      == Sh(-20, 40, -20, 40, 100)     \* 6-pip bullish body above RejL's high
ConfLspike == Sh(-20, 40, -20, 40, 300)     \* the same with its own volume spike
ConfLsmall == Sh(-5, 40, -5, 40, 100)       \* 4.5-pip body
ConfLtouch == Sh(-40, 10, -40, 10, 100)     \* closes at RejL's high, not above
ConfLfar   == Sh(10, 70, 10, 70, 100)       \* closes 6 pips above the prior high
ConfS      == Sh(20, 20, -40, -40, 100)     \* 6-pip bearish body below RejS's low
ConfSfar   == Sh(-10, -10, -70, -70, 100)   \* closes 6 pips below RejS's low
ConfDown   == Sh(-520, -460, -520, -460, 100) \* bullish bar under a falling average
ConfLwick  == Sh(-20, 40, -110, 40, 300)    \* confirms, and rejects for the next bar
ConfL2     == Sh(20, 80, 20, 80, 100)       \* confirms after ConfLwick
ConfLhigh  == Sh(30, 100, 30, 100, 100)     \* 7-pip bullish body above RejBoth's high

ConfShapes ==
    {ConfL, ConfLspike, ConfLsmall, ConfLtouch, ConfLfar, ConfS, ConfSfar,
     ConfDown, ConfLwick, ConfLhigh}

\* The bars after the flat warm-up prefix.
Tails ==
    {<<>>}
      \cup {<<p, c>> : p \in RejShapes, c \in ConfShapes}
      \cup {<<p, ConfLwick, ConfL2>> : p \in RejShapes}

\* Forward bars that can trigger exits: the low reaches lo below and the high
\* hi above the level; open and close stay at the level.
Ev(lo, hi) == Sh(0, hi, -lo, 0, 100)

\* Forward bars that trigger nothing and close off the level.
Drift(c) == Sh(0, Max2(c, 0), Min2(c, 0), c, 100)

EventShapes ==
    ({Ev(lo, hi) : lo \in {0, 150, 200, 300}, hi \in {0, 150, 200, 300}}
       \cup {Drift(50), Drift(-50)}) \ {Quiet}

\* Exits for a trade in either direction.
Whipsaw == Ev(300, 300)

\* Forward lengths: none, one, around the horizon, and beyond it.
FwdLens == {0, 1, max_bars - 2, max_bars - 1} \cup (max_bars..(max_bars + MaxExtra))

\* Positions (bars after the entry bar) where an event bar may stand.
EventAt == {1, max_bars - 1, max_bars}

\* F forward shapes, quiet except for the events evs (position :> shape).
Forward(F, evs) == [k \in 1..F |-> IF k \in DOMAIN evs THEN evs[k] ELSE Quiet]

\* Forward sequences with one event.
OneEvent(F) ==
    {Forward(F, p :> e) : p \in EventAt \cap (1..F), e \in EventShapes}

\* Forward sequences with an event on the first bar and a whipsaw on the last
\* bar of the horizon.
TwoEvents(F) ==
    IF F < max_bars - 1 THEN {}
    ELSE {Forward(F, (1 :> e) @@ ((max_bars - 1) :> Whipsaw)) : e \in EventShapes}

Forwards == UNION {{Forward(F, <<>>)} \cup OneEvent(F) \cup TwoEvents(F) : F \in FwdLens}

\* The bar of shape sh at slot ts around price lvl.
MkBar(ts, lvl, sh) ==
    [ts |-> ts, open |-> lvl + sh.o, high |-> lvl + sh.h, low |-> lvl + sh.l,
     close |-> lvl + sh.c, volume |-> sh.v]

\* A price sequence: W quiet bars at base from slot start on, the tail, and
\* the forward bars around the tail's last close.
MkDf(base, start, W, tail, fwd) ==
    LET lvl == IF tail = <<>> THEN base ELSE base + tail[Len(tail)].c
    IN  [i \in 1..(W + Len(tail) + Len(fwd)) |->
           IF i <= W THEN MkBar(start + i - 1, base, Quiet)
           ELSE IF i <= W + Len(tail) THEN MkBar(start + i - 1, base, tail[i - W])
           ELSE MkBar(start + i - 1, lvl, fwd[i - W - Len(tail)])]

\* Base prices: the confirmation closes land on, near and off round levels.
Bases == {103960, 103980, 103985, 104200}

\* First slots: row 100 opens the session, precedes it, or is its last bar.
Starts == {284, 283, 31}

\* Lengths of the flat prefix, so that the confirmation bar is row 99, 100 or 101.
Prefixes == {Warmup - 2, Warmup - 1, Warmup}

\* Forward bars of the pipeline runs.
PipelineFwds ==
    {<<>>, Forward(max_bars + MaxExtra, <<>>)} \cup OneEvent(max_bars + MaxExtra)

\* Tails of the pipeline runs that are followed by forward bars.
KeyTails == {<<RejL, ConfL>>, <<RejS, ConfS>>, <<RejLcalm, ConfL>>,
             <<RejL, ConfLwick, ConfL2>>}

\* Price sequences well short of the warm-up: one bar, one bar less than the
\* volume window, half the warm-up.
ShortFrames ==
    {MkDf(104000, 284, w, <<>>, <<>>) : w \in {1, VolumeWindow - 1, Warmup \div 2}}

\* (configuration, price sequence) pairs handed to the strategy.
PipelineInputs ==
    {[cfg |-> DefaultConfig, df |-> MkDf(b, s, w, t, <<>>)] :
        b \in Bases, s \in Starts, w \in Prefixes, t \in Tails}
      \cup
    {[cfg |-> c, df |-> MkDf(103960, 284, Warmup - 1, t, f)] :
        c \in Configs, t \in KeyTails, f \in PipelineFwds}
      \cup
    {[cfg |-> DefaultConfig, df |-> d] : d \in ShortFrames}

\* Price sequences handed to the engine directly: an entry bar and forward bars.
EngineDfs == {MkDf(104000, 284, 1, <<>>, f) : f \in Forwards}

\* A hand-made signal at row i: levels 15 / t1 / t2 pips from the close.
HandSignal(d, i, dir, t1, t2) ==
    LET close == Row(d, i).close
        sgn   == IF dir = "LONG" THEN 1 ELSE -1
    IN  [timestamp   |-> Row(d, i).ts,
         direction   |-> dir,
         entry_price |-> close,
         stop_loss   |-> close - sgn * 150,
         tp1         |-> close + sgn * t1,
         tp2         |-> close + sgn * t2,
         level_type  |-> "Round",
         entry_index |-> i]

\* Signals on the first and on the last row, and one whose second target is
\* the nearer one.
HandSignals(d) ==
    {HandSignal(d, i, dir, 200, 300) : i \in {0, Len(d) - 1}, dir \in {"LONG", "SHORT"}}
      \cup {HandSignal(d, 0, "LONG", 300, 200)}

RECURSIVE ListsUpTo(_, _)
ListsUpTo(S, n) ==
    IF n = 0 THEN {<<>>}
    ELSE LET shorter == ListsUpTo(S, n - 1)
         IN  shorter \cup {Append(l, x) : l \in {m \in shorter : Len(m) = n - 1}, x \in S}

----------------------------------------------------------------------------
(* The program *)

TypeStage == pc \in {"start", "signals", "trades", "metrics", "error", "checked"}

\* The pipeline of backtest_runner: a configured strategy and a loaded frame.
Init ==
    /\ \E in \in PipelineInputs : cfg = in.cfg /\ df = in.df
    /\ signals = <<>>
    /\ trades = <<>>
    /\ metrics = <<>>
    /\ pc = "start"
    /\ price = 0
    /\ near = FALSE

\* strategy.detect_signals(df)
DetectSignals ==
    /\ pc = "start"
    /\ IF IndicatorsRaise(cfg)
       THEN pc' = "error" /\ signals' = signals
       ELSE pc' = "signals" /\ signals' = detect_signals(cfg, df)
    /\ UNCHANGED <<cfg, df, trades, metrics, price, near>>

\* engine.execute_trades(df, signals)
ExecuteTrades ==
    /\ pc = "signals"
    /\ trades' = execute_trades(df, signals)
    /\ pc' = "trades"
    /\ UNCHANGED <<cfg, df, signals, metrics, price, near>>

\* engine.calculate_metrics(trades_df)
CalculateMetrics ==
    /\ pc = "trades"
    /\ metrics' = calculate_metrics(trades)
    /\ pc' = "metrics"
    /\ UNCHANGED <<cfg, df, signals, trades, price, near>>

Next == DetectSignals \/ ExecuteTrades \/ CalculateMetrics

Spec == Init /\ [][Next]_vars

\* The engine on its own: a frame and a hand-made signal list.
InitEngine ==
    /\ cfg = DefaultConfig
    /\ df \in EngineDfs
    /\ signals \in ListsUpTo(HandSignals(df), MaxSignals)
    /\ trades = <<>>
    /\ metrics = <<>>
    /\ pc = "signals"
    /\ price = 0
    /\ near = FALSE

NextEngine == ExecuteTrades \/ CalculateMetrics

SpecEngine == InitEngine /\ [][NextEngine]_vars

\* The location check on its own, over the quotes around 1.04000 and 1.05000.
Quotes == (103890..104110) \cup (104390..104610) \cup (104890..105110)

InitNear ==
    /\ cfg = DefaultConfig
    /\ df = <<>>
    /\ signals = <<>>
    /\ trades = <<>>
    /\ metrics = <<>>
    /\ pc = "start"
    /\ price \in Quotes
    /\ near = FALSE

\* self.is_near_round_number(price)
CheckRoundNumber ==
    /\ pc = "start"
    /\ near' = is_near_round_number(price, TolerancePips)
    /\ pc' = "checked"
    /\ UNCHANGED <<cfg, df, signals, trades, metrics, price>>

NextNear == CheckRoundNumber

SpecNear == InitNear /\ [][NextNear]_vars

----------------------------------------------------------------------------
(* Properties of execute_trades *)

Executed == pc \in {"trades", "metrics"}

\* The exit conditions of the specification, per direction.
StopHit(sig, bar) ==
    IF sig.direction = "LONG" THEN bar.low <= sig.stop_loss
    ELSE bar.high >= sig.stop_loss

Target2Hit(sig, bar) ==
    IF sig.direction = "LONG" THEN bar.high >= sig.tp2 ELSE bar.low <= sig.tp2

Target1Hit(sig, bar) ==
    IF sig.direction = "LONG" THEN bar.high >= sig.tp1 ELSE bar.low <= sig.tp1

AnyHit(sig, bar) == StopHit(sig, bar) \/ Target2Hit(sig, bar) \/ Target1Hit(sig, bar)

\* The forward rows the simulation visits for a signal.
VisitedRows(sig) ==
    (sig.entry_index + 1)..(Min2(sig.entry_index + 60, Len(df)) - 1)

HitRows(sig) == {i \in VisitedRows(sig) : AnyHit(sig, Row(df, i))}

FirstHitRow(sig) == CHOOSE i \in HitRows(sig) : \A j \in HitRows(sig) : i <= j

\* C1: the exit of a trade is decided by the earliest visited forward bar on
\* which any exit condition holds, and within that bar the stop-loss wins over
\* target 2, which wins over target 1 (LONG on low/high, SHORT mirrored); the
\* fill is the level of the winning condition.
C1_ExitPriority ==
    Executed =>
      \A k \in 1..Len(signals) :
        LET sig == signals[k]
            t   == trades[k]
        IN  HitRows(sig) # {} =>
              LET bar == Row(df, FirstHitRow(sig))
              IN  /\ t.bars_in_trade = FirstHitRow(sig) - sig.entry_index
                  /\ StopHit(sig, bar) =>
                       t.exit_reason = "STOP_LOSS" /\ t.exit_price = sig.stop_loss
                  /\ ~StopHit(sig, bar) /\ Target2Hit(sig, bar) =>
                       t.exit_reason = "TP2" /\ t.exit_price = sig.tp2
                  /\ ~StopHit(sig, bar) /\ ~Target2Hit(sig, bar) =>
                       t.exit_reason = "TP1" /\ t.exit_price = sig.tp1

\* A LONG trade stopped out on a bar that also reaches both targets.
C1_Witness ==
    /\ pc = "trades"
    /\ \E k \in 1..Len(signals) :
         /\ signals[k].direction = "LONG"
         /\ HitRows(signals[k]) # {}
         /\ StopHit(signals[k], Row(df, FirstHitRow(signals[k])))
         /\ Target2Hit(signals[k], Row(df, FirstHitRow(signals[k])))
         /\ trades[k].exit_reason = "STOP_LOSS"

\* The 60 bars after the signal bar exist and none of them breaches a level.
QuietHorizon(sig) ==
    /\ sig.entry_index + 60 <= Len(df) - 1
    /\ \A i \in (sig.entry_index + 1)..(sig.entry_index + 60) :
         ~AnyHit(sig, Row(df, i))

\* C2: a LONG trade whose 60 forward bars breach nothing closes with reason
\* TIME_STOP at the close of the 60th bar after the signal bar, with
\* bars_in_trade = 60.
C2_TimeStopAtBar60 ==
    Executed =>
      \A k \in 1..Len(signals) :
        (signals[k].direction = "LONG" /\ QuietHorizon(signals[k])) =>
          /\ trades[k].exit_reason = "TIME_STOP"
          /\ trades[k].exit_price = Row(df, signals[k].entry_index + 60).close
          /\ trades[k].bars_in_trade = 60

\* C3: every trade has 0 <= bars_in_trade <= 60, whatever its exit reason and
\* wherever the signal bar lies (the last row included).
C3_HorizonBound ==
    Executed =>
      /\ Len(trades) = Len(signals)
      /\ \A k \in 1..Len(trades) :
           0 <= trades[k].bars_in_trade /\ trades[k].bars_in_trade <= 60

\* A signal on the last row (no bar held) beside a trade held to the time stop.
C3_Witness ==
    /\ pc = "trades"
    /\ \E k \in 1..Len(trades) :
         /\ signals[k].entry_index = Len(df) - 1
         /\ trades[k].bars_in_trade = 0
    /\ \E k \in 1..Len(trades) :
         /\ trades[k].exit_reason = "TIME_STOP"
         /\ trades[k].bars_in_trade > 1

----------------------------------------------------------------------------
(* Properties of calculate_metrics *)

\* A genuine zero: not an undefined value.
IsZero(r) == r.n = 0 /\ r.d > 0

Winners == {k \in 1..Len(trades) : trades[k].win}

Losers == {k \in 1..Len(trades) : ~trades[k].win}

\* Sum of the pips numerators of the trades at the positions in K.
RECURSIVE SumPips(_)
SumPips(K) ==
    IF K = {} THEN 0
    ELSE LET k == CHOOSE x \in K : TRUE
         IN  trades[k].pips.n + SumPips(K \ {k})

GrossProfit == SumPips(Winners)

GrossLoss == Abs(SumPips(Losers))

\* C4: on an empty trade set every field is 0; on a non-empty one each ratio
\* with a zero denominator (no winners, no losers, zero gross loss) is 0, and
\* no field is undefined.
C4_MetricsNeutral ==
    pc = "metrics" =>
      /\ Len(trades) = 0 =>
           /\ metrics.total_trades = 0 /\ metrics.winners = 0 /\ metrics.losers = 0
           /\ IsZero(metrics.win_rate) /\ IsZero(metrics.total_pips)
           /\ IsZero(metrics.avg_pips) /\ IsZero(metrics.avg_win_pips)
           /\ IsZero(metrics.avg_loss_pips) /\ IsZero(metrics.profit_factor)
           /\ IsZero(metrics.avg_bars_in_trade)
      /\ Len(trades) > 0 =>
           /\ metrics.total_trades = Len(trades)
           /\ Winners = {} => IsZero(metrics.avg_win_pips) /\ IsZero(metrics.win_rate)
           /\ Losers = {} => IsZero(metrics.avg_loss_pips)
           /\ GrossLoss = 0 => IsZero(metrics.profit_factor)
           /\ \A f \in {"win_rate", "total_pips", "avg_pips", "avg_win_pips",
                        "avg_loss_pips", "profit_factor", "avg_bars_in_trade"} :
                metrics[f].d > 0

\* The metrics of an empty trade set.
C4_Witness == pc = "metrics" /\ trades = <<>> /\ metrics.total_trades = 0

\* C5 as stated: profit_factor is exactly gross profit / gross loss, and 0
\* when the gross loss is 0.
C5_ExactRatio ==
    pc = "metrics" =>
      /\ GrossLoss > 0 =>
           metrics.profit_factor.n * GrossLoss = GrossProfit * metrics.profit_factor.d
      /\ GrossLoss = 0 => IsZero(metrics.profit_factor)

\* C5 (amended): profit_factor is gross profit / gross loss rounded to two
\* decimal places, and 0 when the gross loss is 0; a non-empty set of winners
\* only has profit_factor = 0.
C5_ProfitFactor ==
    pc = "metrics" =>
      /\ GrossLoss > 0 =>
           /\ metrics.profit_factor.d = 100
           /\ 2 * Abs(metrics.profit_factor.n * GrossLoss - 100 * GrossProfit)
                <= GrossLoss
      /\ GrossLoss = 0 => IsZero(metrics.profit_factor)
      /\ (Len(trades) > 0 /\ Losers = {}) => IsZero(metrics.profit_factor)

\* A non-empty trade set of winners only.
C5_Witness ==
    /\ pc = "metrics"
    /\ Len(trades) > 0
    /\ Losers = {}
    /\ GrossProfit > 0
    /\ IsZero(metrics.profit_factor)

----------------------------------------------------------------------------
(* Properties of detect_signals *)

Detected == pc \in {"signals", "trades", "metrics"}

\* C6: every signal enters at the close of its source bar, with the stop
\* stop_loss_pips below and the targets tp1_pips / tp2_pips above it for LONG,
\* mirrored for SHORT, at 0.0001 a pip; LONG at 1.0400 with 15/20/30 gives
\* 1.0385 / 1.0420 / 1.0430.
C6_Levels ==
    Detected =>
      \A k \in 1..Len(signals) :
        LET sig   == signals[k]
            close == Row(df, sig.entry_index).close
        IN  /\ sig.entry_price = close
            /\ sig.direction \in {"LONG", "SHORT"}
            /\ sig.direction = "LONG" =>
                 /\ sig.stop_loss = close - cfg.stop_loss_pips * 10
                 /\ sig.tp1 = close + cfg.tp1_pips * 10
                 /\ sig.tp2 = close + cfg.tp2_pips * 10
            /\ sig.direction = "SHORT" =>
                 /\ sig.stop_loss = close + cfg.stop_loss_pips * 10
                 /\ sig.tp1 = close - cfg.tp1_pips * 10
                 /\ sig.tp2 = close - cfg.tp2_pips * 10
            /\ (sig.direction = "LONG" /\ close = 104000 /\ cfg = DefaultConfig) =>
                 sig.stop_loss = 103850 /\ sig.tp1 = 104200 /\ sig.tp2 = 104300

\* The LONG entry at 1.0400 of the scenario, and a SHORT entry.
C6_Witness ==
    /\ pc = "signals"
    /\ cfg = DefaultConfig
    /\ \E k \in 1..Len(signals) :
         signals[k].direction = "LONG" /\ signals[k].entry_price = 104000

\* A SHORT entry with its levels placed.
C6_WitnessShort ==
    /\ pc = "signals"
    /\ \E k \in 1..Len(signals) :
         signals[k].direction = "SHORT" /\ signals[k].tp2 < signals[k].tp1

\* Within five pips of a level whose pip value is a multiple of 50.
WithinFivePipsOfRound(p) == p % 500 <= 50 \/ p % 500 >= 450

\* Condition 1 as the specification states it for the round levels (the
\* prior-session test is taken as the code takes it).
ClaimLocation(i) ==
    \/ WithinFivePipsOfRound(Row(df, i).close)
    \/ at_prev_day_high(df, i)
    \/ at_prev_day_low(df, i)

\* Conditions 2-5 for LONG at row i with prior row i-1.
ClaimLong(i) ==
    /\ volume_spike(cfg, df, i - 1)
    /\ lower_wick(df, i - 1) >= cfg.min_wick_pips * 10
    /\ body(df, i) >= cfg.min_body_pips * 10
    /\ Row(df, i).close > Row(df, i).open
    /\ Row(df, i).close > Row(df, i - 1).high
    /\ ema_slope(cfg, df, i).n > 0
    /\ Row(df, i).close * ema_20(cfg, df, i).d > ema_20(cfg, df, i).n

ClaimShort(i) ==
    /\ volume_spike(cfg, df, i - 1)
    /\ upper_wick(df, i - 1) >= cfg.min_wick_pips * 10
    /\ body(df, i) >= cfg.min_body_pips * 10
    /\ Row(df, i).close < Row(df, i).open
    /\ Row(df, i).close < Row(df, i - 1).low
    /\ ema_slope(cfg, df, i).n < 0
    /\ Row(df, i).close * ema_20(cfg, df, i).d < ema_20(cfg, df, i).n

EligibleRows == {i \in 100..(Len(df) - 1) : Hour(Row(df, i).ts) \in 8..10}

SignalRows == {signals[k].entry_index : k \in 1..Len(signals)}

\* C7: a signal is emitted at an eligible row exactly when the location
\* condition holds (close within 5 pips of a round level or of the prior
\* session's high or low) together with conditions 2-5 for LONG or for SHORT.
C7_FiveConditions ==
    Detected =>
      \A i \in EligibleRows :
        (i \in SignalRows) <=> (ClaimLocation(i) /\ (ClaimLong(i) \/ ClaimShort(i)))

\* The same with the location test as the code computes it.
C7_AsComputed ==
    Detected =>
      \A i \in EligibleRows :
        (i \in SignalRows) <=> (at_key_level(df, i) /\ (ClaimLong(i) \/ ClaimShort(i)))

\* C8: every signal's source row is at least 100 and lies in the session
\* (8 <= hour < 11), and the signals are in ascending source-row order.
C8_WarmupSession ==
    Detected =>
      /\ \A k \in 1..Len(signals) :
           /\ signals[k].entry_index >= 100
           /\ signals[k].entry_index <= Len(df) - 1
           /\ 8 <= Hour(signals[k].timestamp) /\ Hour(signals[k].timestamp) < 11
           /\ signals[k].timestamp = Row(df, signals[k].entry_index).ts
      /\ \A j, k \in 1..Len(signals) :
           j < k => signals[j].entry_index < signals[k].entry_index

\* Two signals, the first on row 100 in the first hour of the session.
C8_Witness ==
    /\ pc = "signals"
    /\ Len(signals) >= 2
    /\ signals[1].entry_index = 100
    /\ Hour(signals[1].timestamp) = 8

\* C9: is_near_round_number(price) is true exactly when the price is within
\* 5 pips of a level whose pip value is a multiple of 50, above or below it,
\* sub-pip digits included (1.04998 is near, 1.04900 is not).
C9_NearRound ==
    pc = "checked" =>
      /\ near <=> WithinFivePipsOfRound(price)
      /\ price = 104998 => near
      /\ price = 104900 => ~near

\* The rules of the configuration's validation that the configuration can
\* break (max_bars and the session window are not configurable).
Invalid(c) ==
    \/ c.volume_multiplier <= 0
    \/ c.min_wick_pips <= 0
    \/ c.min_body_pips <= 0
    \/ c.stop_loss_pips <= 0
    \/ c.tp1_pips <= 0
    \/ c.tp2_pips <= 0
    \/ c.ema_length < 1

\* C10: an invalid configuration is rejected with an error before anything
\* is computed: it never yields signals or trades.
C10_InvalidRejected ==
    Invalid(cfg) =>
      /\ pc \in {"start", "error"}
      /\ signals = <<>>
      /\ trades = <<>>

\* C11: a price sequence with fewer rows than the warm-up (fewer than 100)
\* makes detect_signals fail with an error: it never returns a signal list,
\* empty or not, and nothing is computed from it afterwards.
C11_ShortInputFails ==
    Len(df) < 100 =>
      /\ pc \in {"start", "error"}
      /\ signals = <<>>
      /\ trades = <<>>
      /\ metrics = <<>>

\* The signals emitted for row i.
SignalsOf(i) == {k \in 1..Len(signals) : signals[k].entry_index = i}

\* C12: a bar yields at most one signal and no two signals share a source
\* row; LONG is tested first, so a bar on which the LONG conditions hold
\* yields a LONG signal, and a SHORT signal stands only on a bar on which the
\* LONG conditions do not all hold (and the SHORT conditions do).
C12_FirstMatchWins ==
    Detected =>
      /\ \A j, k \in 1..Len(signals) :
           signals[j].entry_index = signals[k].entry_index => j = k
      /\ \A i \in EligibleRows :
           /\ Cardinality(SignalsOf(i)) <= 1
           /\ (at_key_level(df, i) /\ ClaimLong(i)) =>
                \E k \in SignalsOf(i) : signals[k].direction = "LONG"
      /\ \A k \in 1..Len(signals) :
           /\ signals[k].direction = "LONG" => ClaimLong(signals[k].entry_index)
           /\ signals[k].direction = "SHORT" =>
                /\ ~ClaimLong(signals[k].entry_index)
                /\ ClaimShort(signals[k].entry_index)

\* A bar that passes the LONG conditions after a prior bar with both wicks
\* long enough for either direction: it yields its one signal, LONG.
C12_Witness ==
    /\ pc = "signals"
    /\ cfg = DefaultConfig
    /\ \E k \in 1..Len(signals) :
         LET i == signals[k].entry_index
         IN  /\ signals[k].direction = "LONG"
             /\ ClaimLong(i)
             /\ upper_wick(df, i - 1) >= cfg.min_wick_pips * 10
             /\ SignalsOf(i) = {k}

----------------------------------------------------------------------------
(* execute_trades as a function of the signal list *)

\* The permutations of 1..n.
Perms(n) == {f \in [1..n -> 1..n] : \A i, j \in 1..n : f[i] = f[j] => i = j}

\* The list l rearranged by f.
Permuted(l, f) == [k \in 1..Len(l) |-> l[f[k]]]

\* The state part of C13; the recomputations are made in the state
\* execute_trades returns in.
C13_PerSignal ==
    Executed =>
      IF Len(trades) # Len(signals) THEN FALSE
      ELSE /\ \A k \in 1..Len(signals) :
                /\ trades[k].exit_reason \in {"STOP_LOSS", "TP1", "TP2", "TIME_STOP"}
                /\ trades[k].entry_time = signals[k].timestamp
                /\ trades[k].direction = signals[k].direction
                /\ trades[k].entry_price = signals[k].entry_price
           /\ pc = "trades" =>
                /\ \A k \in 1..Len(signals) :
                     execute_trades(df, <<signals[k]>>) = <<trades[k]>>
                /\ \A f \in Perms(Len(signals)) :
                     execute_trades(df, Permuted(signals, f)) = Permuted(trades, f)

\* C13: execute_trades returns one trade per signal, in input order, each
\* with one exit reason among STOP_LOSS, TP1, TP2 and TIME_STOP; the trade of
\* a signal is the one computed for that signal alone, so a permutation of
\* the signals gives the same permutation of the trades, overlapping trades
\* included; no step changes the price sequence, and the returned trades
\* stay as they are.
C13_PureFunction ==
    /\ []C13_PerSignal
    /\ [][df' = df /\ (Executed => UNCHANGED <<signals, trades>>)]_vars

\* Two signals on the same bar whose trades run side by side and end
\* differently.
C13_Witness ==
    /\ pc = "trades"
    /\ Len(signals) >= 2
    /\ signals[1].entry_index = signals[2].entry_index
    /\ signals[1] # signals[2]
    /\ trades[1].bars_in_trade >= 1
    /\ trades[2].bars_in_trade > trades[1].bars_in_trade
    /\ trades[1].exit_reason # trades[2].exit_reason

----------------------------------------------------------------------------
(* Results of the trades of detected signals *)

\* The stop and target distances of the configuration are positive.
PositiveLevels(c) == c.stop_loss_pips > 0 /\ c.tp1_pips > 0 /\ c.tp2_pips > 0

\* The rational r is the whole number k.
IsWhole(r, k) == r.d > 0 /\ r.n = k * r.d

\* C14: for the trades of detected signals under positive stop and target
\* distances the exit reason fixes the result: STOP_LOSS is -stop_loss_pips
\* and a loss, TP1 is +tp1_pips and a win, TP2 is +tp2_pips and a win, LONG
\* and SHORT alike; win holds exactly when pips > 0, so a TIME_STOP at 0 pips
\* (a signal on the last bar closes at its entry with bars_in_trade = 0) is a
\* loss; and the metrics have winners + losers = total_trades.
C14_ExitFixesResult ==
    (Executed /\ PositiveLevels(cfg) /\ Len(trades) = Len(signals)) =>
      /\ \A k \in 1..Len(trades) :
           LET t == trades[k]
           IN  /\ t.exit_reason = "STOP_LOSS" =>
                    IsWhole(t.pips, -cfg.stop_loss_pips) /\ ~t.win
               /\ t.exit_reason = "TP1" => IsWhole(t.pips, cfg.tp1_pips) /\ t.win
               /\ t.exit_reason = "TP2" => IsWhole(t.pips, cfg.tp2_pips) /\ t.win
               /\ t.win <=> t.pips.n > 0
               /\ (t.exit_reason = "TIME_STOP" /\ t.pips.n = 0) => ~t.win
               /\ signals[k].entry_index = Len(df) - 1 =>
                    /\ t.exit_reason = "TIME_STOP"
                    /\ t.exit_price = t.entry_price
                    /\ t.bars_in_trade = 0
                    /\ IsWhole(t.pips, 0)
                    /\ ~t.win
      /\ pc = "metrics" =>
           /\ metrics.total_trades = Len(trades)
           /\ metrics.winners = Cardinality(Winners)
           /\ metrics.losers = Cardinality(Losers)
           /\ metrics.winners + metrics.losers = metrics.total_trades

\* A detected signal on the last bar: closed at its entry after no bar, 0
\* pips, and counted among the losers.
C14_Witness ==
    /\ pc = "metrics"
    /\ PositiveLevels(cfg)
    /\ \E k \in 1..Len(trades) :
         /\ signals[k].entry_index = Len(df) - 1
         /\ trades[k].exit_reason = "TIME_STOP"
         /\ trades[k].bars_in_trade = 0
         /\ trades[k].pips.n = 0
         /\ ~trades[k].win
    /\ metrics.losers >= 1
    /\ metrics.winners + metrics.losers = metrics.total_trades

\* A SHORT trade of a detected signal ended by its stop.
C14_WitnessStop ==
    Executed /\ PositiveLevels(cfg)
      /\ \E k \in 1..Len(trades) :
           trades[k].exit_reason = "STOP_LOSS" /\ trades[k].direction = "SHORT"

\* A SHORT trade of a detected signal ended by its first target.
C14_WitnessTarget1 ==
    Executed /\ PositiveLevels(cfg)
      /\ \E k \in 1..Len(trades) :
           trades[k].exit_reason = "TP1" /\ trades[k].direction = "SHORT"

\* A LONG trade of a detected signal ended by its second target.
C14_WitnessTarget2 ==
    Executed /\ PositiveLevels(cfg)
      /\ \E k \in 1..Len(trades) :
           trades[k].exit_reason = "TP2" /\ trades[k].direction = "LONG"

\* A trade held through a quiet horizon and closed at 0 pips.
C14_WitnessQuiet ==
    Executed /\ PositiveLevels(cfg)
      /\ \E k \in 1..Len(trades) :
           /\ trades[k].exit_reason = "TIME_STOP"
           /\ trades[k].bars_in_trade = max_bars - 1
           /\ trades[k].pips.n = 0

====
